---- MODULE Spec2Model ----
(***************************************************************************)
(* CodeAssist AI: the web front end (src/gradio.py) and the console front  *)
(* end (src/multi_tool_agent/agent.py) of a four-stage sequential agent    *)
(* pipeline over an in-memory session store.                               *)
(*                                                                         *)
(* Texts are sequences of string tokens: <<>> is the empty string, string  *)
(* formatting is concatenation (\o).  The text a stage generates is either *)
(* empty or the stub text "stage:<name>".  Every value kept in a session   *)
(* state carries, next to its text, the run, user and session it was       *)
(* recorded under (history tags the program does not store).               *)
(***************************************************************************)
EXTENDS Integers, Sequences, FiniteSets, TLC

\* ---------------------------------------------------------------- bounds
MaxIds == 2        \* session ids uuid4 hands out in one behaviour
MaxRuns == 2       \* pipeline runs started in one behaviour

Threads == {"t1", "t2"}       \* request handlers of the web server
MainThread == "t1"            \* the only handler of the sequential schedules
Users == {"alice", "bob"}     \* values of the "User ID" textbox
Queries == {"q"}              \* values of the query textbox
ConsoleQueries == {"q1", "q2"}

\* ------------------------------------------------------------- constants
APP_NAME == "code_assistant_app"
USER_ID == "developer_user_01"
SESSION_ID == <<"coding_session_01">>
None == <<"None">>
FALLBACK == <<"I encountered an issue processing your request. Please try again or start a new session.">>

\* a faulty variant: the research stage listed before the understanding stage
sub_agents_swapped ==
  <<"ResearchAgent", "CodeUnderstandingAgent", "CodeGenerationAgent", "ExplanationAgent">>

\* sub_agents of root_agent, in list order
sub_agents ==
  <<"CodeUnderstandingAgent", "ResearchAgent", "CodeGenerationAgent", "ExplanationAgent">>

NStages == Len(sub_agents)

\* a faulty variant: the research stage declared with the explanation stage's key
output_key_clash(agent) ==
  CASE agent = "CodeUnderstandingAgent" -> "coding_task_understanding"
    [] agent = "ResearchAgent" -> "code_explanation"
    [] agent = "CodeGenerationAgent" -> "code_solution"
    [] agent = "ExplanationAgent" -> "code_explanation"

\* output_key of each LlmAgent
output_key(agent) ==
  CASE agent = "CodeUnderstandingAgent" -> "coding_task_understanding"
    [] agent = "ResearchAgent" -> "coding_research"
    [] agent = "CodeGenerationAgent" -> "code_solution"
    [] agent = "ExplanationAgent" -> "code_explanation"

\* what the text-generation capability returns for a stage
StageText(agent, empty) == IF empty THEN <<>> ELSE <<"stage:", agent>>

Agents == {sub_agents[k] : k \in 1..NStages}
LastAgent == sub_agents[NStages]

\* Stand-ins for the text-generation capability during one run: for each
\* agent, whether the text it returns is empty.
AllText == [a \in Agents |-> FALSE]
AllEmpty == [a \in Agents |-> TRUE]
LastEmpty == [a \in Agents |-> a = LastAgent]
OnlyLastText == [a \in Agents |-> a # LastAgent]
Capabilities == {AllText, AllEmpty, LastEmpty, OnlyLastText}

\* f"session_{uuid.uuid4()}"
SessionIdOf(n) == <<"session_", ToString(n)>>

\* f"Created new session: {session_id}"
StatusText(sid) == <<"Created new session: ">> \o sid

\* a faulty variant: every record stored under the console's fixed user and session
SessionKeyShared(app, user, sid) == <<app, "developer_user_01", <<"coding_session_01">> >>

\* the key a session record is stored under in InMemorySessionService
SessionKey(app, user, sid) == <<app, user, sid>>

VARIABLES
  user_sessions,   \* gradio.py: dict user identifier -> session id
  sessions,        \* session_service: SessionKey -> session state (output-key -> value)
  uuid_next,       \* the next value uuid.uuid4() returns
  run_next,        \* serial of the next pipeline run
  frame,           \* per handler thread: position and locals of the running call
  printed,         \* console: what call_agent has written to stdout in this call
  allocated,       \* history: every session id allocated so far
  resolved         \* history: per user, ids get_session_id returned since the last reset

vars == <<user_sessions, sessions, uuid_next, run_next, frame, printed, allocated, resolved>>

PendingAll == [k \in 1..NStages |-> "PENDING"]

IdleFrame ==
  [pc |-> "idle", op |-> "none", user_identifier |-> None, user_query |-> None,
   session_id |-> None, final_response |-> <<>>, ret |-> None, raised |-> FALSE,
   run |-> 0, gen |-> AllText, cur |-> 0, status |-> PendingAll, trace |-> <<>>, events |-> <<>>,
   ctx |-> <<>>, seen |-> <<>>, seen_alloc |-> {}]

Init ==
  /\ user_sessions = <<>>
  /\ sessions = <<>>
  /\ uuid_next = 1
  /\ run_next = 1
  /\ frame = [t \in Threads |-> IdleFrame]
  /\ printed = <<>>
  /\ allocated = {}
  /\ resolved = [u \in Users |-> {}]

\* ------------------------------------------------- gradio.py: the registry

\* a faulty variant: a generator that returns its previous value again
Uuid4Fixed == IF uuid_next > 1 THEN uuid_next - 1 ELSE uuid_next

\* uuid.uuid4(): a value never returned before
Uuid4 == uuid_next

\* process_code_query, line 154, entering get_session_id: the membership test
Submit(t, u, q) ==
  /\ frame[t].pc = "idle"
  /\ frame' = [frame EXCEPT ![t] =
       [IdleFrame EXCEPT !.op = "query", !.user_identifier = u, !.user_query = q,
                         !.seen = user_sessions, !.seen_alloc = allocated,
                         !.pc = IF u \notin DOMAIN user_sessions
                                THEN "gsi_write" ELSE "gsi_return"]]
  /\ UNCHANGED <<user_sessions, sessions, uuid_next, run_next, printed, allocated, resolved>>

\* get_session_id: user_sessions[user_identifier] = f"session_{uuid.uuid4()}"
GsiWrite(t) ==
  /\ frame[t].pc = "gsi_write"
  /\ uuid_next <= MaxIds
  /\ LET sid == SessionIdOf(Uuid4) IN
       /\ user_sessions' = (frame[t].user_identifier :> sid) @@ user_sessions
       /\ allocated' = allocated \cup {sid}
  /\ uuid_next' = uuid_next + 1
  /\ frame' = [frame EXCEPT ![t].pc = "gsi_return"]
  /\ UNCHANGED <<sessions, run_next, printed, resolved>>

\* get_session_id: return user_sessions[user_identifier]
GsiReturn(t) ==
  /\ frame[t].pc = "gsi_return"
  /\ LET u == frame[t].user_identifier
         sid == user_sessions[u] IN
       /\ frame' = [frame EXCEPT ![t].session_id = sid, ![t].pc = "get_session"]
       /\ resolved' = [resolved EXCEPT ![u] = @ \cup {sid}]
  /\ UNCHANGED <<user_sessions, sessions, uuid_next, run_next, printed, allocated>>

\* new_session, line 147: user_sessions[user_identifier] = f"session_{uuid.uuid4()}"
NewSession(t, u) ==
  /\ frame[t].pc = "idle"
  /\ uuid_next <= MaxIds
  /\ LET sid == SessionIdOf(Uuid4) IN
       /\ user_sessions' = (u :> sid) @@ user_sessions
       /\ allocated' = allocated \cup {sid}
  /\ uuid_next' = uuid_next + 1
  /\ resolved' = [resolved EXCEPT ![u] = {}]
  /\ frame' = [frame EXCEPT ![t] =
       [IdleFrame EXCEPT !.op = "new_session", !.user_identifier = u,
                         !.seen = user_sessions, !.seen_alloc = allocated,
                         !.pc = "ns_read"]]
  /\ UNCHANGED <<sessions, run_next, printed>>

\* new_session, line 148: session_id = user_sessions[user_identifier]
NsRead(t) ==
  /\ frame[t].pc = "ns_read"
  /\ frame' = [frame EXCEPT ![t].session_id = user_sessions[frame[t].user_identifier],
                            ![t].pc = "ns_create"]
  /\ UNCHANGED <<user_sessions, sessions, uuid_next, run_next, printed, allocated, resolved>>

\* a faulty variant: the record is never stored
create_session_lost(store, app, user, sid) == store

\* session_service.create_session(...): a record with an empty state under the key
create_session(store, app, user, sid) == (SessionKey(app, user, sid) :> <<>>) @@ store

\* new_session, lines 149-150: create the record, return the status text
NsCreate(t) ==
  /\ frame[t].pc = "ns_create"
  /\ sessions' = create_session(sessions, APP_NAME, frame[t].user_identifier, frame[t].session_id)
  /\ frame' = [frame EXCEPT ![t].ret = StatusText(frame[t].session_id), ![t].pc = "done"]
  /\ UNCHANGED <<user_sessions, uuid_next, run_next, printed, allocated, resolved>>

\* ------------------------------------- gradio.py: process_code_query

KeyOf(t) == SessionKey(APP_NAME, frame[t].user_identifier, frame[t].session_id)

\* lines 157-158: the lookup finds the record
GetSessionHit(t) ==
  /\ frame[t].pc = "get_session"
  /\ KeyOf(t) \in DOMAIN sessions
  /\ frame' = [frame EXCEPT ![t].pc = "run", ![t].seen = <<>>, ![t].seen_alloc = {}]
  /\ UNCHANGED <<user_sessions, sessions, uuid_next, run_next, printed, allocated, resolved>>

\* lines 157-160: the store holds no record and the lookup raises; the except
\* branch creates the record
GetSessionMissRaises(t) ==
  /\ frame[t].pc = "get_session"
  /\ KeyOf(t) \notin DOMAIN sessions
  /\ sessions' = create_session(sessions, APP_NAME, frame[t].user_identifier, frame[t].session_id)
  /\ frame' = [frame EXCEPT ![t].pc = "run", ![t].seen = <<>>, ![t].seen_alloc = {}]
  /\ UNCHANGED <<user_sessions, uuid_next, run_next, printed, allocated, resolved>>

\* lines 157-158: the store holds no record and the lookup reports the miss by
\* returning None; nothing is raised, so the except branch does not run
GetSessionMissNone(t) ==
  /\ frame[t].pc = "get_session"
  /\ KeyOf(t) \notin DOMAIN sessions
  /\ frame' = [frame EXCEPT ![t].pc = "run", ![t].seen = <<>>, ![t].seen_alloc = {}]
  /\ UNCHANGED <<user_sessions, sessions, uuid_next, run_next, printed, allocated, resolved>>

\* runner.run(user_id, session_id, new_message) on a session the store holds:
\* the pipeline starts with every stage pending
RunnerStart(t, g) ==
  /\ frame[t].pc = "run"
  /\ KeyOf(t) \in DOMAIN sessions
  /\ run_next <= MaxRuns
  /\ run_next' = run_next + 1
  /\ frame' = [frame EXCEPT ![t].run = run_next, ![t].gen = g, ![t].cur = 1,
                            ![t].pc = "stage"]
  /\ UNCHANGED <<user_sessions, sessions, uuid_next, printed, allocated, resolved>>

\* runner.run on a session the store does not hold: the runner raises, and
\* nothing in process_code_query catches it
RunnerSessionNotFound(t) ==
  /\ frame[t].pc = "run"
  /\ KeyOf(t) \notin DOMAIN sessions
  /\ frame' = [frame EXCEPT ![t].raised = TRUE, ![t].ret = <<"ValueError: Session not found">>,
                            ![t].pc = "done"]
  /\ UNCHANGED <<user_sessions, sessions, uuid_next, run_next, printed, allocated, resolved>>

\* the stage root_agent runs in position k
StageAgent(k) == sub_agents[k]

\* SequentialAgent: the next sub-agent starts; its prompt is built from the
\* session state as it is now
StageStart(t) ==
  /\ frame[t].pc = "stage"
  /\ LET k == frame[t].cur IN
       /\ frame[t].status[k] = "PENDING"
       /\ frame' = [frame EXCEPT ![t].status[k] = "RUNNING",
                                 ![t].trace = Append(@, <<StageAgent(k), "RUNNING">>),
                                 ![t].ctx = sessions[KeyOf(t)]]
  /\ UNCHANGED <<user_sessions, sessions, uuid_next, run_next, printed, allocated, resolved>>

\* a faulty variant: the loop keeps the first non-empty final response
ConsumeFirst(f, text) ==
  IF f.op = "query" /\ f.final_response = <<>> THEN [f EXCEPT !.final_response = text] ELSE f

\* the loop body of the front end for one final-response event:
\* gradio.py lines 171-173 keep the text, agent.py lines 153-157 print it
Consume(f, text) ==
  IF f.op = "query" THEN [f EXCEPT !.final_response = text] ELSE f

ConsolePrint(f, out, text) ==
  IF f.op = "call_agent" THEN out \o << <<"\nCode Assistant Response:">>, text >> ELSE out

\* the running sub-agent returns its text: the text is saved in the session
\* state under the agent's output_key, the final-response event reaches the
\* front end's loop, and the SequentialAgent moves on to the next sub-agent
StageFinish(t) ==
  /\ frame[t].pc = "stage"
  /\ LET k == frame[t].cur
         agent == StageAgent(k)
         text == StageText(agent, frame[t].gen[agent])
         val == [text |-> text, run |-> frame[t].run,
                 user_id |-> frame[t].user_identifier, session_id |-> frame[t].session_id]
         f1 == [frame[t] EXCEPT !.status[k] = "DONE",
                                !.trace = Append(@, <<agent, "DONE">>),
                                !.events = Append(@, [author |-> agent, text |-> text]),
                                !.cur = k + 1,
                                !.pc = IF k < NStages THEN "stage"
                                       ELSE IF frame[t].op = "query" THEN "finish" ELSE "done"]
     IN
       /\ frame[t].status[k] = "RUNNING"
       /\ sessions' = [sessions EXCEPT ![KeyOf(t)] = (output_key(agent) :> val) @@ @]
       /\ frame' = [frame EXCEPT ![t] = Consume(f1, text)]
       /\ printed' = ConsolePrint(frame[t], printed, text)
  /\ UNCHANGED <<user_sessions, uuid_next, run_next, allocated, resolved>>

\* the running sub-agent's model call raises: the run is aborted and the
\* exception leaves the front-end function
StageFail(t) ==
  /\ frame[t].pc = "stage"
  /\ frame[t].status[frame[t].cur] = "RUNNING"
  /\ frame' = [frame EXCEPT ![t].raised = TRUE, ![t].ret = <<"Exception">>, ![t].pc = "done"]
  /\ UNCHANGED <<user_sessions, sessions, uuid_next, run_next, printed, allocated, resolved>>

\* a faulty variant: no substitution for an empty final response
FinalTextRaw(final_response) == final_response

\* process_code_query, lines 175-178
FinalText(final_response) == IF final_response = <<>> THEN FALLBACK ELSE final_response

Finish(t) ==
  /\ frame[t].pc = "finish"
  /\ frame' = [frame EXCEPT ![t].ret = FinalText(frame[t].final_response), ![t].pc = "done"]
  /\ UNCHANGED <<user_sessions, sessions, uuid_next, run_next, printed, allocated, resolved>>

\* the front-end function has returned (or raised); the handler is free again
Return(t) ==
  /\ frame[t].pc = "done"
  /\ frame' = [frame EXCEPT ![t] = IdleFrame]
  /\ UNCHANGED <<user_sessions, sessions, uuid_next, run_next, printed, allocated, resolved>>

\* --------------------------------------------- agent.py: the console

\* lines 149-151: print the query, start the run on the fixed session
CallAgent(t, q, g) ==
  /\ frame[t].pc = "idle"
  /\ run_next <= MaxRuns
  /\ run_next' = run_next + 1
  /\ printed' = << <<"\nUser Query: ">> \o <<q>> >>
  /\ frame' = [frame EXCEPT ![t] =
       [IdleFrame EXCEPT !.op = "call_agent", !.user_identifier = USER_ID,
                         !.user_query = <<q>>, !.session_id = SESSION_ID,
                         !.run = run_next, !.gen = g, !.cur = 1, !.pc = "stage"]]
  /\ UNCHANGED <<user_sessions, sessions, uuid_next, allocated, resolved>>

\* agent.py lines 136-138: module start-up creates the one session
ConsoleInit ==
  /\ user_sessions = <<>>
  /\ sessions = create_session(<<>>, APP_NAME, USER_ID, SESSION_ID)
  /\ uuid_next = 1
  /\ run_next = 1
  /\ frame = [t \in Threads |-> IdleFrame]
  /\ printed = <<>>
  /\ allocated = {}
  /\ resolved = [u \in Users |-> {}]

\* ------------------------------------------------------- specifications

WebStep(t, gens) ==
  \/ \E u \in Users, q \in Queries : Submit(t, u, <<q>>)
  \/ GsiWrite(t)
  \/ GsiReturn(t)
  \/ \E u \in Users : NewSession(t, u)
  \/ NsRead(t)
  \/ NsCreate(t)
  \/ GetSessionHit(t)
  \/ GetSessionMissRaises(t)
  \/ GetSessionMissNone(t)
  \/ \E g \in gens : RunnerStart(t, g)
  \/ RunnerSessionNotFound(t)
  \/ StageStart(t)
  \/ StageFinish(t)
  \/ StageFail(t)
  \/ Finish(t)
  \/ Return(t)

\* one request at a time
Next == WebStep(MainThread, Capabilities)

Spec == Init /\ [][Next]_vars

\* requests of several users, or of one user, in flight at once
ConcNext == \E t \in Threads : WebStep(t, {AllText})

ConcSpec == Init /\ [][ConcNext]_vars

ConsoleNext ==
  \/ \E q \in ConsoleQueries, g \in Capabilities : CallAgent(MainThread, q, g)
  \/ StageStart(MainThread)
  \/ StageFinish(MainThread)
  \/ StageFail(MainThread)
  \/ Return(MainThread)

ConsoleSpec == ConsoleInit /\ [][ConsoleNext]_vars

\* ------------------------------------------------------------- properties

\* the frames of a web request that has just returned from get_session_id
JustResolved(t) == frame[t].op = "query" /\ frame[t].pc = "get_session"

\* the frames of a new_session call that has returned
ResetReturned(t) == frame[t].op = "new_session" /\ frame[t].pc = "done"

\* the frames of a process_code_query call that has returned normally
QueryReturned(t) == frame[t].op = "query" /\ frame[t].pc = "done" /\ ~frame[t].raised

\* C1: when get_session_id(u) returns, its result is the id that was recorded
\* for u at entry and user_sessions is as it was; or, none being recorded, an
\* id never allocated before, now recorded under u and nothing else changed.
\* Every get_session_id(u) since the last reset of u has returned this id.
C1_Resolve ==
  \A t \in Threads : JustResolved(t) =>
    LET u == frame[t].user_identifier
        sid == frame[t].session_id
        before == frame[t].seen IN
      /\ IF u \in DOMAIN before
         THEN sid = before[u] /\ user_sessions = before
         ELSE /\ sid \notin frame[t].seen_alloc
              /\ DOMAIN user_sessions = DOMAIN before \cup {u}
              /\ user_sessions[u] = sid
              /\ \A v \in DOMAIN before : user_sessions[v] = before[v]
      /\ resolved[u] = {sid}

\* get_session_id allocated an id for a user without one while other ids exist
C1_Witness ==
  \E t \in Threads :
    /\ JustResolved(t)
    /\ frame[t].user_identifier \notin DOMAIN frame[t].seen
    /\ frame[t].seen_alloc # {}

\* what holds of a returned new_session(u) apart from its return value
ResetEffect(t) ==
  LET u == frame[t].user_identifier
      sid == frame[t].session_id
      before == frame[t].seen IN
    /\ sid \notin frame[t].seen_alloc
    /\ u \in DOMAIN before => sid # before[u]
    /\ u \in DOMAIN user_sessions /\ user_sessions[u] = sid
    /\ \A v \in DOMAIN before \ {u} : user_sessions[v] = before[v]
    /\ <<APP_NAME, u, sid>> \in DOMAIN sessions
    /\ sessions[<<APP_NAME, u, sid>>] = <<>>

\* every stage output a session holds was recorded under that session's id
OutputsOfOwnSession ==
  \A k \in DOMAIN sessions : \A o \in DOMAIN sessions[k] : sessions[k][o].session_id = k[3]

\* C2 as stated: new_session(u) allocates a new id, overwrites the mapping,
\* creates an empty record and returns the new id.
C2_ReturnsNewId ==
  \A t \in Threads : ResetReturned(t) =>
    /\ ResetEffect(t)
    /\ frame[t].ret = frame[t].session_id

\* C2, amended: new_session(u) allocates an id never allocated before (so two
\* calls in a row yield two distinct ids), overwrites the mapping of u, creates
\* an empty record under the new id, and returns the status text "Created new
\* session: <id>"; a session only ever holds outputs recorded under its own
\* id, so the session u now resolves to holds nothing of the earlier one.
C2_Reset ==
  /\ OutputsOfOwnSession
  /\ \A t \in Threads : ResetReturned(t) =>
       /\ ResetEffect(t)
       /\ frame[t].ret = <<"Created new session: ">> \o frame[t].session_id

\* a reset of a user whose earlier session holds stage outputs
C2_Witness ==
  \E t \in Threads :
    /\ ResetReturned(t)
    /\ LET u == frame[t].user_identifier
           before == frame[t].seen IN
         /\ u \in DOMAIN before
         /\ <<APP_NAME, u, before[u]>> \in DOMAIN sessions
         /\ sessions[<<APP_NAME, u, before[u]>>] # <<>>

\* the record process_code_query and the runner use for user u
SessionOf(u) == SessionKey(APP_NAME, u, user_sessions[u])

\* C3: two different users are never mapped to the same session id, and the
\* session state a user's requests run against holds only outputs recorded by
\* that user's runs.
C3_Isolation ==
  /\ \A u1, u2 \in DOMAIN user_sessions : u1 # u2 => user_sessions[u1] # user_sessions[u2]
  /\ \A u \in DOMAIN user_sessions :
       SessionOf(u) \in DOMAIN sessions =>
         \A o \in DOMAIN sessions[SessionOf(u)] : sessions[SessionOf(u)][o].user_id = u
  /\ \A t \in Threads : frame[t].pc = "stage" =>
       \A o \in DOMAIN frame[t].ctx : frame[t].ctx[o].user_id = frame[t].user_identifier

\* both users have a session holding stage outputs
C3_Witness ==
  \A u \in Users :
    /\ u \in DOMAIN user_sessions
    /\ SessionOf(u) \in DOMAIN sessions
    /\ sessions[SessionOf(u)] # <<>>

\* the order of the four stages the claim names
ClaimOrder ==
  <<"CodeUnderstandingAgent", "ResearchAgent", "CodeGenerationAgent", "ExplanationAgent">>

\* the i-th status change of a run that follows the claim
ClaimStep(i) == <<ClaimOrder[(i + 1) \div 2], IF i % 2 = 1 THEN "RUNNING" ELSE "DONE">>

\* C4: the status changes of a run are, in this order, stage 1 RUNNING, stage 1
\* DONE, stage 2 RUNNING, ..., stage 4 DONE: no stage is skipped, repeated or
\* started before its predecessor is done; a run that ends without an error
\* has made all eight changes.
C4_StageOrder ==
  \A t \in Threads :
    LET tr == frame[t].trace IN
      /\ Len(tr) <= 2 * Len(ClaimOrder)
      /\ \A i \in 1..Len(tr) : tr[i] = ClaimStep(i)
      /\ \A k \in 1..Len(ClaimOrder) :
           frame[t].status[k] = IF 2 * k <= Len(tr) THEN "DONE"
                                ELSE IF 2 * k - 1 <= Len(tr) THEN "RUNNING" ELSE "PENDING"
      /\ (frame[t].pc = "finish" \/ QueryReturned(t)) => Len(tr) = 2 * Len(ClaimOrder)

\* a run has gone through all four stages
C4_Witness == \E t \in Threads : frame[t].pc = "finish" /\ Len(frame[t].trace) = 8

\* the text of the final-response event of the last stage of the run of t
LastStageText(t) == frame[t].events[Len(frame[t].events)].text

\* C5: a process_code_query that returns normally after a run whose last stage
\* produced non-empty text returns that text, which is the text of
\* ExplanationAgent stored under code_explanation by this run.
C5_ReturnsLastStage ==
  \A t \in Threads : (QueryReturned(t) /\ LastStageText(t) # <<>>) =>
    /\ frame[t].events[Len(frame[t].events)].author = "ExplanationAgent"
    /\ frame[t].ret = LastStageText(t)
    /\ frame[t].ret = <<"stage:", "ExplanationAgent">>
    /\ "code_explanation" \in DOMAIN sessions[KeyOf(t)]
    /\ sessions[KeyOf(t)]["code_explanation"].text = frame[t].ret
    /\ sessions[KeyOf(t)]["code_explanation"].run = frame[t].run

\* a normal return after a run in which every stage produced non-empty text
C5_Witness ==
  \E t \in Threads :
    /\ QueryReturned(t)
    /\ \A i \in 1..Len(frame[t].events) : frame[t].events[i].text # <<>>

\* C6: a process_code_query that returns normally after a run whose last stage
\* produced empty text (whatever the earlier stages produced) returns the
\* fallback message; no normal return is the empty string.
C6_Fallback ==
  \A t \in Threads : QueryReturned(t) =>
    /\ LastStageText(t) = <<>> =>
         frame[t].ret = <<"I encountered an issue processing your request. Please try again or start a new session.">>
    /\ frame[t].ret # <<>>

\* a normal return after a run whose third stage produced text and whose last
\* stage produced none
C6_Witness ==
  \E t \in Threads :
    /\ QueryReturned(t)
    /\ LastStageText(t) = <<>>
    /\ frame[t].events[3].text # <<>>

\* C7: when process_code_query reaches the runner, the store holds a record
\* for the resolved (user id, session id), and the call never ends with the
\* runner's session-not-found error.
C7_SessionEnsured ==
  \A t \in Threads : frame[t].op = "query" =>
    /\ frame[t].pc = "run" => KeyOf(t) \in DOMAIN sessions
    /\ ~(frame[t].pc = "done" /\ frame[t].raised
         /\ frame[t].ret = <<"ValueError: Session not found">>)

\* C8: all get_session_id(u) calls since the last reset of u returned one id,
\* and that id is the one user_sessions holds for u.
C8_ConcurrentResolve ==
  \A u \in Users :
    /\ Cardinality(resolved[u]) <= 1
    /\ resolved[u] # {} => u \in DOMAIN user_sessions /\ resolved[u] = {user_sessions[u]}

\* the session state stage 3 of the run of t builds its prompt from holds the
\* outputs stages 1 and 2 recorded in this run
Stage3SeesStages12(t) ==
  /\ "coding_task_understanding" \in DOMAIN frame[t].ctx
  /\ frame[t].ctx["coding_task_understanding"].run = frame[t].run
  /\ "coding_research" \in DOMAIN frame[t].ctx
  /\ frame[t].ctx["coding_research"].run = frame[t].run

Stage3Running(t) == frame[t].pc = "stage" /\ frame[t].status[3] = "RUNNING"

ResponseBlocks == {i \in 1..Len(printed) : printed[i] = <<"\nCode Assistant Response:">>}

\* C10: call_agent prints the query and then at most one response block; when
\* the run has ended without an error the output is the query, the header and
\* the last stage's text.
C10_PrintsOnce ==
  \A t \in Threads : frame[t].op = "call_agent" =>
    /\ Cardinality(ResponseBlocks) <= 1
    /\ (frame[t].pc = "done" /\ ~frame[t].raised) =>
         printed = << <<"\nUser Query: ">> \o frame[t].user_query,
                      <<"\nCode Assistant Response:">>, LastStageText(t) >>

====
